---- MODULE Spec2Model ----
(***************************************************************************)
(* Model of the multi-query dispatch of the Loki data source               *)
(* (pkg/components/loki/lokihttp/types.go: Service.QueryData, queryData,   *)
(* executeQuery) and of the request validation of the query service        *)
(* (pkg/services/query/model.go: validateRequest, getFlattenedQueries).    *)
(*                                                                         *)
(* One behaviour is one request.  The goroutines that                      *)
(* concurrency.ForEachJob starts are anonymous and run the same loop, so   *)
(* the pool is kept as the status of every job plus the number of workers  *)
(* that are at the head of their loop and the number that have returned.   *)
(***************************************************************************)
EXTENDS Integers, Sequences, FiniteSets, TLC

\* ------------------------------------------------------------------ bounds

\* Longest request whose sub-queries are drawn freely (RefID, data source
\* type, payload).
MaxSmall == 2

\* Length of the canonical request (distinct RefIDs 1..n); above WorkerLimit.
MaxQueries == 11

\* Calls of getFlattenedQueries made on one parsedRequest.
MaxCalls == 2

\* Frames in one answer of the backend.
MaxFrames == 4

\* Largest limit given to ResponseLimitMiddleware; the smallest is -1.
MaxLimit == 2

\* Requests sent through the round tripper the middleware returned.
MaxRequests == 2

\* The concurrency argument queryData passes to concurrency.ForEachJob.
WorkerLimit == 10

\* -------------------------------------------------------------- data model

\* What the JSON payload of a sub-query is, as far as the code can tell:
\* "ok" decodes and the backend answers with frames, "fail" decodes and the
\* backend call returns an error, "bad" is not decodable by json.Unmarshal.
Payloads == {"ok", "fail", "bad"}

\* datasources.DataSourceType values: the keys of parsedRequest.parsedQueries.
DsTypes == {"loki", "prometheus"}

Min(a, b) == IF a <= b THEN a ELSE b

RefIDsOf(qs) == {qs[i].RefID : i \in 1..Len(qs)}

\* backend.DataResponse{}: the value of a response before executeQuery fills it.
DataResponse == [Error |-> "nil", Frames |-> << >>]

\* backend.NewQueryDataResponse(): an empty Responses map.
NewQueryDataResponse == << >>

\* parseQueryModel: json.Unmarshal of the raw payload; the error is non-nil
\* exactly for an undecodable payload.
parseQueryModel(raw) == IF raw.payload = "bad" THEN "decode" ELSE "nil"

\* parseQuery(req): decodes every sub-query with parseQueryModel and returns
\* the first error, otherwise one lokiQuery per sub-query in request order.
parseQuery(rq) ==
    IF \E i \in 1..Len(rq) : parseQueryModel(rq[i]) # "nil"
    THEN [queries |-> << >>, err |-> "decode"]
    ELSE [queries |-> rq, err |-> "nil"]

\* adjustFrame(frame, query, setMetricFrameName, logsDataplane): rewrites
\* the frame in place, or fails on a frame it cannot handle.
adjustFrame(frame, query, setMetricFrameName, logsDataplane) ==
    IF frame.shape = "bad"
    THEN [err |-> "adjust", frame |-> frame]
    ELSE [err |-> "nil", frame |-> [frame EXCEPT !.adjusted = @ + 1]]

\* The body of executeQuery after runQuery has returned r.
executeQueryOf(r) ==
    IF r.err # "nil"
    THEN [DataResponse EXCEPT !.Error = r.err]
    ELSE [DataResponse EXCEPT !.Frames = r.frames]

\* api.DataQuery followed by adjustFrame on every frame: the frames of the
\* query, or an error.  The backend is deterministic in the query.
runQuery(query) ==
    IF query.payload = "fail"
    THEN [frames |-> << >>, err |-> "backend"]
    ELSE [frames |-> <<[of |-> query.RefID, ds |-> query.dsType, data |-> query.payload]>>,
          err |-> "nil"]

\* executeQuery: the error of runQuery goes into DataResponse.Error, the
\* frames into DataResponse.Frames; never both.
executeQuery(query) == executeQueryOf(runQuery(query))

\* Mutant of StoreResponse: the entry is keyed by the order of arrival.
StoreByArrival(responses, query, queryRes) ==
    ((Cardinality(DOMAIN responses) + 1) :> queryRes) @@ responses

\* result.Responses[query.RefID] = queryRes
StoreResponse(responses, query, queryRes) ==
    (query.RefID :> queryRes) @@ responses

\* Mutant of jobs: the last query is left out of the dispatch.
jobsOffByOne(qs) == IF Len(qs) = 0 THEN 0 ELSE Len(qs) - 1

\* The jobs argument of concurrency.ForEachJob: len(queries).
jobs(qs) == Len(qs)

\* Mutant of workers: one goroutine per job, no limit.
workersUnbounded(n) == n

\* The number of goroutines ForEachJob starts: min(concurrency, jobs), with
\* the concurrency 10 that queryData passes.
workers(n) == Min(WorkerLimit, n)

\* Mutant of jobFuncReturn: the error of the query is returned to ForEachJob.
jobFuncReturnsError(res) == res.Error

\* What the job function returns to ForEachJob after it has stored queryRes:
\* "errors are saved per-query, always return nil".
jobFuncReturn(res) == "nil"

\* The orders in which a range over a Go map with the key set S may visit
\* its keys: every permutation.
MapOrders(S) ==
    {o \in [1..Cardinality(S) -> S] : \A i, j \in DOMAIN o : o[i] = o[j] => i = j}

\* parseMetricRequest: every query is appended to the bucket of its data
\* source type; a type without a query has no bucket.
parseMetricRequest(rq) ==
    [hasExpression |-> FALSE,
     parsedQueries |->
        [t \in {rq[i].dsType : i \in 1..Len(rq)} |->
            SelectSeq(rq, LAMBDA q : q.dsType = t)],
     dsTypes |-> {rq[i].dsType : i \in 1..Len(rq)}]

\* Mutant of ScanRefIds: refIds starts empty again for every bucket.
RECURSIVE ScanRefIdsPerBucket(_, _, _, _, _)
ScanRefIdsPerBucket(pq, order, k, j, refIds) ==
    IF k > Len(order) THEN "nil"
    ELSE IF j > Len(pq[order[k]]) THEN ScanRefIdsPerBucket(pq, order, k + 1, 1, {})
    ELSE LET id == pq[order[k]][j].RefID
         IN  IF id \in refIds THEN "ErrDuplicateRefId"
             ELSE ScanRefIdsPerBucket(pq, order, k, j + 1, refIds \cup {id})

\* The two nested range loops of validateRequest from bucket order[k], query
\* j on, with the refIds seen so far.
RECURSIVE ScanRefIds(_, _, _, _, _)
ScanRefIds(pq, order, k, j, refIds) ==
    IF k > Len(order) THEN "nil"
    ELSE IF j > Len(pq[order[k]]) THEN ScanRefIds(pq, order, k + 1, 1, refIds)
    ELSE LET id == pq[order[k]][j].RefID
         IN  IF id \in refIds THEN "ErrDuplicateRefId"
             ELSE ScanRefIds(pq, order, k, j + 1, refIds \cup {id})

\* contexthandler.FromContext(ctx) without a request: reqCtx == nil or
\* reqCtx.Req == nil.
NoRequest == [Req |-> FALSE, expression |-> "", uid |-> << >>, plugin |-> << >>]

\* splitHeaders: the values of a header, each a list of comma-separated
\* parts, as one list of parts.
RECURSIVE splitHeaders(_)
splitHeaders(headers) ==
    IF headers = << >> THEN << >>
    ELSE splitHeaders(SubSeq(headers, 1, Len(headers) - 1)) \o headers[Len(headers)]

\* The part of validateRequest after `if true { return nil }`: the checks of
\* the expression parameter and of the two headers against the request.
headerValidation(pr, ctx) ==
    IF ~ctx.Req THEN "nil"
    ELSE IF pr.hasExpression
    THEN IF ctx.expression \in {"", "true"} THEN "nil" ELSE "ErrQueryParamMismatch"
    ELSE LET uids == splitHeaders(ctx.uid)
             plugins == splitHeaders(ctx.plugin)
         IN  IF /\ Len(uids) > 0
                /\ \/ Len(uids) # Cardinality(DOMAIN pr.parsedQueries)
                   \/ \E k \in 1..Len(uids) : uids[k] \notin DOMAIN pr.parsedQueries
             THEN "ErrQueryParamMismatch"
             ELSE IF /\ Len(plugins) > 0
                     /\ \/ Len(plugins) # Cardinality(pr.dsTypes)
                        \/ \E k \in 1..Len(plugins) : plugins[k] \notin pr.dsTypes
             THEN "ErrQueryParamMismatch"
             ELSE "nil"

\* Mutant of skipHeaderValidation: the header validation is enabled.
runHeaderValidation == FALSE

\* `if true { return nil }`: the header validation is skipped.
skipHeaderValidation == TRUE

\* Mutant of validateRequest: the duplicate check is skipped.
validateNothing(pr, order, ctx) == "nil"

\* validateRequest with the buckets visited in `order` and the request
\* context ctx.
validateRequest(pr, order, ctx) ==
    LET dup == ScanRefIds(pr.parsedQueries, order, 1, 1, {})
    IN  IF dup # "nil" THEN dup
        ELSE IF skipHeaderValidation THEN "nil"
        ELSE headerValidation(pr, ctx)

\* Mutant of AppendBuckets: each bucket replaces the slice instead of being
\* appended to it.
AppendLastBucket(pq, order, k) ==
    IF k = 0 THEN << >> ELSE pq[order[k]]

\* getFlattenedQueries with the buckets visited in `order`.
RECURSIVE AppendBuckets(_, _, _)
AppendBuckets(pq, order, k) ==
    IF k = 0 THEN << >>
    ELSE AppendBuckets(pq, order, k - 1) \o pq[order[k]]

getFlattenedQueries(pr, order) ==
    AppendBuckets(pr.parsedQueries, order, Len(order))

\* The sequential branch of queryData run to its end on a prefix of the list.
RECURSIVE SequentialResponses(_, _)
SequentialResponses(qs, n) ==
    IF n = 0 THEN NewQueryDataResponse
    ELSE StoreResponse(SequentialResponses(qs, n - 1), qs[n], executeQuery(qs[n]))

\* ------------------------------------------------------------ callResource

\* Strings that the code takes apart are sequences of characters.
HasPrefix(str, prefix) ==
    /\ Len(str) >= Len(prefix)
    /\ SubSeq(str, 1, Len(prefix)) = prefix

\* "labels?", "label/", "series?", "index/stats?"
PrefixLabels == <<"l", "a", "b", "e", "l", "s", "?">>
PrefixLabel == <<"l", "a", "b", "e", "l", "/">>
PrefixSeries == <<"s", "e", "r", "i", "e", "s", "?">>
PrefixIndexStats == <<"i", "n", "d", "e", "x", "/", "s", "t", "a", "t", "s", "?">>

\* Mutant of invalidURL: the prefixes are compared without their last
\* character.
invalidURLShortPrefixes(url) ==
    /\ ~HasPrefix(url, SubSeq(PrefixLabels, 1, Len(PrefixLabels) - 1))
    /\ ~HasPrefix(url, SubSeq(PrefixLabel, 1, Len(PrefixLabel) - 1))
    /\ ~HasPrefix(url, SubSeq(PrefixSeries, 1, Len(PrefixSeries) - 1))
    /\ ~HasPrefix(url, SubSeq(PrefixIndexStats, 1, Len(PrefixIndexStats) - 1))

\* The condition of the "a very basic is-this-url-valid check".
invalidURL(url) ==
    /\ ~HasPrefix(url, PrefixLabels)
    /\ ~HasPrefix(url, PrefixLabel)
    /\ ~HasPrefix(url, PrefixSeries)
    /\ ~HasPrefix(url, PrefixIndexStats)

\* fmt.Sprintf("/loki/api/v1/%s", url)
lokiURL(url) == <<"/", "l", "o", "k", "i", "/", "a", "p", "i", "/", "v", "1", "/">> \o url

\* Mutant of respHeaders: content-encoding is set whatever the encoding is.
respHeadersAlwaysEncoding(rawLokiResponse) ==
    [contentType |-> <<"application/json">>,
     contentEncoding |-> <<rawLokiResponse.Encoding>>]

\* The headers of the response callResource sends.
respHeaders(rawLokiResponse) ==
    IF rawLokiResponse.Encoding # ""
    THEN [contentType |-> <<"application/json">>,
          contentEncoding |-> <<rawLokiResponse.Encoding>>]
    ELSE [contentType |-> <<"application/json">>]

\* req.Method values: the comparison with "GET" is exact.
Methods == {"GET", "get", "POST"}

\* req.URL values: the part the prefix test reads, followed by nothing or by one
\* more character.
UrlHeads ==
    {PrefixLabels, PrefixLabel, PrefixSeries, PrefixIndexStats,
     <<"l", "a", "b", "e", "l", "s">>,
     <<"l", "a", "b", "e", "l">>,
     <<"s", "e", "r", "i", "e", "s">>,
     <<"i", "n", "d", "e", "x", "/", "s", "t", "a", "t", "s">>,
     <<"/", "l", "a", "b", "e", "l", "s", "?">>,
     <<"q", "u", "e", "r", "y", "?">>,
     << >>}

Urls == {h \o t : h \in UrlHeads, t \in {<< >>, <<"x">>, <<"?">>, <<"/">>}}

\* What api.RawQuery may return: an error, or a response with a status, an
\* encoding (possibly none) and a body.
RawLokiResponses ==
    {[err |-> "backend", Status |-> 0, Encoding |-> "", Body |-> ""]}
        \cup [err : {"nil"}, Status : {200, 500}, Encoding : {"", "gzip"},
              Body : {"{}"}]

\* -------------------------------------------------- ResponseLimitMiddleware

\* http.StatusSwitchingProtocols
StatusSwitchingProtocols == 101

\* A response body: what it reads, and whether reading is cut off after
\* maxBytes bytes.
PlainBody(data) == [data |-> data, limited |-> FALSE, maxBytes |-> 0]

\* httpclient.MaxBytesReader(body, limit): the same body behind a reader
\* that gives at most limit bytes.
MaxBytesReader(body, n) == [body EXCEPT !.limited = TRUE, !.maxBytes = n]

\* A nil *http.Response.
NilResponse == [isNil |-> TRUE, StatusCode |-> 0, Body |-> PlainBody("")]

\* Mutant of limitedRoundTrip: the body is wrapped whatever the status is.
limitedRoundTripAnyStatus(r, e, n) ==
    IF e # "nil" THEN [res |-> NilResponse, err |-> e]
    ELSE IF ~r.isNil
    THEN [res |-> [r EXCEPT !.Body = MaxBytesReader(r.Body, n)], err |-> "nil"]
    ELSE [res |-> r, err |-> "nil"]

\* The RoundTripperFunc of the middleware, given what next.RoundTrip(req)
\* returned.
limitedRoundTrip(r, e, n) ==
    IF e # "nil" THEN [res |-> NilResponse, err |-> e]
    ELSE IF ~r.isNil /\ r.StatusCode # StatusSwitchingProtocols
    THEN [res |-> [r EXCEPT !.Body = MaxBytesReader(r.Body, n)], err |-> "nil"]
    ELSE [res |-> r, err |-> "nil"]

\* What the middleware function returns for the round tripper next.
middleware(n) == IF n <= 0 THEN "next" ELSE "RoundTripperFunc"

\* The responses next.RoundTrip may return: none, or one with a status and
\* a body.
HttpResponses ==
    {NilResponse}
        \cup {[isNil |-> FALSE, StatusCode |-> c, Body |-> PlainBody(d)] :
                 c \in {100, StatusSwitchingProtocols, 200, 500}, d \in {"", "data"}}

\* What next.RoundTrip may return: a response and a nil error, or an error
\* with or without a response.
RoundTripAnswers ==
    [res : HttpResponses, err : {"nil", "transport"}]

\* ------------------------------------------------------------------- state

VARIABLES
    request,        \* the sub-queries of the incoming request
    entry,          \* "query.QueryData", "Service.QueryData" or "queryData"
    parsedReq,      \* the parsedRequest of the query service
    req,            \* req.Queries as the Loki service receives them
    runInParallel,  \* the flag of queryData
    dsInfoErr,      \* whether s.getDSInfo fails
    pc,             \* position of the calling goroutine
    queries,        \* the lokiQuery list parseQuery returned
    Responses,      \* result.Responses
    err,            \* the error queryData returns
    status,         \* per index of queries: where its job is
    queryRes,       \* per index: the value executeQuery returned
    indexes,        \* number of indexes.Inc() calls made so far
    idle,           \* workers at the head of their loop
    exited,         \* workers that have returned
    groupErr,       \* first non-nil error a worker returned (errgroup)
    resultLock,     \* 0 when free, else the job index of the holder
    ctxDone,        \* the context of the request is cancelled
    calls,          \* number of executeQuery calls started
    lateStores,     \* a result was stored after the cancellation
    stores,         \* number of insertions into result.Responses made
    answer,         \* what api.DataQuery returns to runQuery: frames or an error
    responseOpts,   \* the ResponseOpts executeQuery is given
    execPc,         \* position inside executeQuery / runQuery
    frames,         \* the frames runQuery holds
    adjustLog,      \* the calls of adjustFrame made so far, in order
    runResult,      \* what runQuery returned
    response,       \* the DataResponse executeQuery returned
    method,         \* req.Method of a CallResourceRequest
    url,            \* req.URL of a CallResourceRequest
    rawLokiResponse,\* what api.RawQuery returns to callResource
    sendErr,        \* what sender.Send returns
    resPc,          \* position inside callResource
    rawCalls,       \* the URLs api.RawQuery was called with, in order
    sent,           \* the responses handed to sender.Send, in order
    resErr,         \* the error callResource returned
    limit,          \* the limit ResponseLimitMiddleware is given
    tripper,        \* the round tripper the middleware returned
    nextAnswers,    \* what next.RoundTrip returned, call by call
    tripResults,    \* what the returned round tripper returned, request by request
    reqCtx,         \* the request context validateRequest is given
    verdict,        \* what validateRequest returned
    flat            \* the slices getFlattenedQueries returned, call by call

vars == <<request, entry, parsedReq, req, runInParallel, dsInfoErr, pc,
          queries, Responses, err, status, queryRes, indexes, idle, exited,
          groupErr, resultLock, ctxDone, calls, lateStores, stores, answer,
          responseOpts, execPc, frames, adjustLog, runResult, response,
          method, url, rawLokiResponse, sendErr, resPc, rawCalls, sent, resErr,
          limit, tripper, nextAnswers, tripResults, reqCtx, verdict, flat>>

pool == <<status, queryRes, indexes, idle, exited, groupErr, resultLock>>

\* The variables of the operations that are looked at apart from a Loki
\* dispatch: the query service's validateRequest and getFlattenedQueries,
\* the inside of one executeQuery call, callResource, and the response limit
\* middleware of the HTTP client.
parsedRequestOps == <<verdict, flat>>
executeQueryOps == <<answer, responseOpts, execPc, frames, adjustLog, runResult,
                     response>>
callResourceOps == <<method, url, rawLokiResponse, sendErr, resPc, rawCalls, sent,
                     resErr>>
middlewareOps == <<limit, tripper, nextAnswers, tripResults>>
apart == <<parsedRequestOps, executeQueryOps, callResourceOps, middlewareOps>>

input == <<request, entry, runInParallel, dsInfoErr, reqCtx, apart>>
dispatch == <<pc, queries, Responses, err, pool, ctxDone, calls, lateStores,
              stores>>
service == <<parsedReq, req>>

\* The context the workers poll: errgroup.WithContext derives it from the
\* request's context and cancels it when a worker returns a non-nil error.
groupCtxDone == ctxDone \/ groupErr # "nil"

\* ------------------------------------------------------------ the requests

RECURSIVE SeqsUpTo(_, _)
SeqsUpTo(S, n) ==
    IF n = 0 THEN {<< >>}
    ELSE LET shorter == SeqsUpTo(S, n - 1)
         IN  shorter \cup {Append(s, x) : s \in {t \in shorter : Len(t) = n - 1}, x \in S}

\* RefIDs are opaque: a request names them in order of first appearance.
FirstAppearance(rq) ==
    \A i \in 1..Len(rq) :
        rq[i].RefID <= 1 + Cardinality({rq[j].RefID : j \in 1..(i - 1)})

\* Requests of the query service: any data source type, payloads that decode.
ServiceRequests ==
    {rq \in SeqsUpTo([RefID : 1..MaxSmall, dsType : DsTypes, payload : {"ok", "fail"}],
                     MaxSmall) : FirstAppearance(rq)}

\* Requests handed to the Loki service directly: any payload.
SmallRequests ==
    {rq \in SeqsUpTo([RefID : 1..MaxSmall, dsType : {"loki"}, payload : Payloads],
                     MaxSmall) : FirstAppearance(rq)}

\* n queries with the RefIDs 1..n; the second one fails at the backend.
Canonical(n) ==
    [i \in 1..n |-> [RefID |-> i, dsType |-> "loki",
                     payload |-> IF i = 2 THEN "fail" ELSE "ok"]]

\* The requests handed to queryData: the small ones, and the canonical one
\* that exceeds the worker pool.
Requests == SmallRequests \cup {Canonical(MaxQueries)}

\* No dispatch has begun: the response is empty, no job and no worker exists.
NoDispatch ==
    /\ queries = << >>
    /\ Responses = NewQueryDataResponse
    /\ err = "nil"
    /\ status = << >>
    /\ queryRes = << >>
    /\ indexes = 0
    /\ idle = 0
    /\ exited = 0
    /\ groupErr = "nil"
    /\ resultLock = 0
    /\ ctxDone = FALSE
    /\ calls = 0
    /\ lateStores = FALSE
    /\ stores = 0

\* The ResponseOpts Service.QueryData passes to queryData.
ServiceResponseOpts == [metricDataplane |-> TRUE, logsDataplane |-> TRUE]

\* No executeQuery call is looked into.
NoExecuteQueryOps ==
    /\ answer = [err |-> "nil", frames |-> << >>]
    /\ responseOpts = ServiceResponseOpts
    /\ execPc = "none"
    /\ frames = << >>
    /\ adjustLog = << >>
    /\ runResult = [frames |-> << >>, err |-> "nil"]
    /\ response = DataResponse

\* No middleware is built.
NoMiddlewareOps ==
    /\ limit = 0
    /\ tripper = "none"
    /\ nextAnswers = << >>
    /\ tripResults = << >>

\* No resource call is made.
NoCallResourceOps ==
    /\ method = "GET"
    /\ url = << >>
    /\ rawLokiResponse = [err |-> "nil", Status |-> 0, Encoding |-> "", Body |-> ""]
    /\ sendErr = "nil"
    /\ resPc = "none"
    /\ rawCalls = << >>
    /\ sent = << >>
    /\ resErr = "nil"

\* validateRequest and getFlattenedQueries have not been called.
NoParsedRequestOps ==
    /\ verdict = "unset"
    /\ flat = << >>

Init ==
    /\ entry \in {"query.QueryData", "Service.QueryData", "queryData"}
    /\ request \in Requests \cup ServiceRequests
    /\ runInParallel \in BOOLEAN
    /\ dsInfoErr \in BOOLEAN
    /\ entry = "query.QueryData" => runInParallel /\ request \in ServiceRequests
    /\ entry = "Service.QueryData" => runInParallel /\ request \in SmallRequests
    /\ entry = "queryData" => ~dsInfoErr /\ request \in Requests
    /\ pc = CASE entry = "query.QueryData" -> "validateRequest"
              [] entry = "Service.QueryData" -> "getDSInfo"
              [] OTHER -> "parseQuery"
    /\ parsedReq = IF entry = "query.QueryData" THEN parseMetricRequest(request)
                   ELSE parseMetricRequest(<< >>)
    /\ req = IF entry = "query.QueryData" THEN << >> ELSE request
    /\ NoDispatch
    /\ reqCtx = NoRequest
    /\ NoParsedRequestOps
    /\ NoExecuteQueryOps
    /\ NoCallResourceOps
    /\ NoMiddlewareOps

\* ----------------------------------------------------------------- actions

\* Query service: validateRequest finds a repeated RefID; the request fails
\* with ErrDuplicateRefId and nothing is dispatched.
ValidateRejects ==
    /\ pc = "validateRequest"
    /\ \E order \in MapOrders(DOMAIN parsedReq.parsedQueries) :
          /\ validateRequest(parsedReq, order, reqCtx) # "nil"
          /\ err' = validateRequest(parsedReq, order, reqCtx)
    /\ pc' = "returned"
    /\ UNCHANGED <<input, service, queries, Responses, pool, ctxDone, calls,
                   lateStores, stores>>

\* Query service: validateRequest returns nil; the flattened queries are
\* handed to the data source's QueryData.
ValidateAccepts ==
    /\ pc = "validateRequest"
    /\ \E order \in MapOrders(DOMAIN parsedReq.parsedQueries) :
          validateRequest(parsedReq, order, reqCtx) = "nil"
    /\ \E order \in MapOrders(DOMAIN parsedReq.parsedQueries) :
          req' = getFlattenedQueries(parsedReq, order)
    /\ pc' = "getDSInfo"
    /\ UNCHANGED <<input, parsedReq, queries, Responses, err, pool, ctxDone,
                   calls, lateStores, stores>>

\* Service.QueryData: s.getDSInfo fails, the empty response and the error
\* are returned.
GetDSInfoFails ==
    /\ pc = "getDSInfo" /\ dsInfoErr
    /\ pc' = "returned"
    /\ err' = "dsInfo"
    /\ UNCHANGED <<input, service, queries, Responses, pool, ctxDone, calls,
                   lateStores, stores>>

\* Service.QueryData: s.getDSInfo succeeds, queryData is called with
\* runInParallel = true.
GetDSInfoOk ==
    /\ pc = "getDSInfo" /\ ~dsInfoErr
    /\ pc' = "parseQuery"
    /\ UNCHANGED <<input, service, queries, Responses, err, pool, ctxDone,
                   calls, lateStores, stores>>

\* queryData up to the branch on runInParallel.  With jobs = 0 ForEachJob
\* returns nil at once; otherwise it starts min(concurrency, jobs) workers.
\* For jobs = 1 the releases of the library differ: either the one worker is
\* started like any other, or the job function is called directly in the
\* calling goroutine; both are possible here.
ParseQuery ==
    /\ pc = "parseQuery"
    /\ LET p == parseQuery(req)
           n == Len(p.queries)
       IN  IF p.err # "nil"
           THEN /\ pc' = "returned"
                /\ err' = p.err
                /\ UNCHANGED <<queries, status, queryRes, idle>>
           ELSE /\ queries' = p.queries
                /\ status' = [i \in 1..n |-> "pending"]
                /\ queryRes' = [i \in 1..n |-> DataResponse]
                /\ err' = "nil"
                /\ IF runInParallel
                   THEN IF jobs(p.queries) = 0
                        THEN pc' = "returned" /\ idle' = 0
                        ELSE IF jobs(p.queries) = 1
                        THEN \/ pc' = "Wait" /\ idle' = workers(jobs(p.queries))
                             \/ pc' = "direct" /\ idle' = 0
                        ELSE pc' = "Wait" /\ idle' = workers(jobs(p.queries))
                   ELSE pc' = "loop" /\ idle' = 0
    /\ UNCHANGED <<input, service, Responses, indexes, exited, groupErr,
                   resultLock, ctxDone, calls, lateStores, stores>>

\* Mutant of WorkerTake: the job function takes resultLock before it calls
\* executeQuery.
WorkerTakeLocked ==
    /\ pc = "Wait" /\ idle > 0 /\ ~groupCtxDone
    /\ indexes < jobs(queries)
    /\ resultLock = 0
    /\ resultLock' = indexes + 1
    /\ indexes' = indexes + 1
    /\ status' = [status EXCEPT ![indexes + 1] = "running"]
    /\ idle' = idle - 1
    /\ calls' = calls + 1
    /\ UNCHANGED <<input, service, pc, queries, Responses, err, queryRes,
                   exited, groupErr, ctxDone, lateStores, stores>>

\* Mutant of WorkerTake: the index counter is read and written in two steps,
\* so a worker may get the index another worker has just taken.
WorkerTakeSameIndex ==
    /\ pc = "Wait" /\ idle > 0 /\ ~groupCtxDone
    /\ indexes < jobs(queries)
    /\ \E idx \in {indexes, indexes + 1} \cap (1..jobs(queries)) :
          /\ indexes' = idx
          /\ status' = [status EXCEPT ![idx] = "running"]
    /\ idle' = idle - 1
    /\ calls' = calls + 1
    /\ UNCHANGED <<input, service, pc, queries, Responses, err, queryRes,
                   exited, groupErr, resultLock, ctxDone, lateStores, stores>>

\* A worker at `for ctx.Err() == nil`: the context is live, indexes.Inc()
\* gives an index below jobs, jobFunc starts and calls executeQuery.
WorkerTake ==
    /\ pc = "Wait" /\ idle > 0 /\ ~groupCtxDone
    /\ indexes < jobs(queries)
    /\ indexes' = indexes + 1
    /\ status' = [status EXCEPT ![indexes + 1] = "running"]
    /\ idle' = idle - 1
    /\ calls' = calls + 1
    /\ UNCHANGED <<input, service, pc, queries, Responses, err, queryRes,
                   exited, groupErr, resultLock, ctxDone, lateStores, stores>>

\* A worker at the head of its loop: indexes.Inc() gives idx >= jobs, the
\* worker returns nil.
WorkerDrained ==
    /\ pc = "Wait" /\ idle > 0 /\ ~groupCtxDone
    /\ indexes >= jobs(queries)
    /\ indexes' = indexes + 1
    /\ idle' = idle - 1
    /\ exited' = exited + 1
    /\ UNCHANGED <<input, service, pc, queries, Responses, err, status,
                   queryRes, groupErr, resultLock, ctxDone, calls, lateStores, stores>>

\* Mutant of WorkerCancelled: a worker that finds the context cancelled
\* returns nil instead of ctx.Err().
WorkerCancelledNil ==
    /\ pc = "Wait" /\ idle > 0 /\ groupCtxDone
    /\ idle' = idle - 1
    /\ exited' = exited + 1
    /\ UNCHANGED <<input, service, pc, queries, Responses, err, status,
                   queryRes, indexes, groupErr, resultLock, ctxDone, calls,
                   lateStores, stores>>

\* A worker at the head of its loop finds ctx.Err() != nil and returns it;
\* errgroup keeps the first error.
WorkerCancelled ==
    /\ pc = "Wait" /\ idle > 0 /\ groupCtxDone
    /\ idle' = idle - 1
    /\ exited' = exited + 1
    /\ groupErr' = IF groupErr = "nil" THEN "ctx" ELSE groupErr
    /\ UNCHANGED <<input, service, pc, queries, Responses, err, status,
                   queryRes, indexes, resultLock, ctxDone, calls, lateStores, stores>>

\* Mutant of ExecuteReturns: the job function goes on to the insertion
\* without acquiring resultLock.
ExecuteReturnsNoLock(i) ==
    /\ pc \in {"Wait", "direct"} /\ status[i] = "running"
    /\ status' = [status EXCEPT ![i] = "locked"]
    /\ queryRes' = [queryRes EXCEPT ![i] = executeQuery(queries[i])]
    /\ UNCHANGED <<input, service, pc, queries, Responses, err, indexes, idle,
                   exited, groupErr, resultLock, ctxDone, calls, lateStores,
                   stores>>

\* executeQuery returns in the job of index i and resultLock.Lock() succeeds.
\* A worker blocked in Lock() touches no shared state and is, for every other
\* goroutine, the same as one whose backend call is still running, so the
\* return is taken together with the acquisition of the lock.
ExecuteReturns(i) ==
    /\ pc \in {"Wait", "direct"} /\ status[i] = "running"
    /\ resultLock = 0
    /\ resultLock' = i
    /\ status' = [status EXCEPT ![i] = "locked"]
    /\ queryRes' = [queryRes EXCEPT ![i] = executeQuery(queries[i])]
    /\ UNCHANGED <<input, service, pc, queries, Responses, err, indexes, idle,
                   exited, groupErr, ctxDone, calls, lateStores, stores>>

\* Mutant of StoreAndUnlock: a result computed by the time the context is
\* cancelled is dropped instead of stored.
StoreUnlessCancelled(i) ==
    /\ pc = "Wait" /\ status[i] = "locked"
    /\ Responses' = IF ctxDone THEN Responses
                    ELSE StoreResponse(Responses, queries[i], queryRes[i])
    /\ resultLock' = 0
    /\ status' = [status EXCEPT ![i] = "done"]
    /\ idle' = idle + 1
    /\ lateStores' = (lateStores \/ ctxDone)
    /\ stores' = stores + 1
    /\ UNCHANGED <<input, service, pc, queries, err, queryRes, indexes,
                   exited, groupErr, ctxDone, calls>>

\* Mutant of StoreAndUnlock: the job function returns without releasing
\* resultLock.
StoreNoUnlock(i) ==
    /\ pc = "Wait" /\ status[i] = "locked"
    /\ Responses' = StoreResponse(Responses, queries[i], queryRes[i])
    /\ status' = [status EXCEPT ![i] = "done"]
    /\ idle' = idle + 1
    /\ lateStores' = (lateStores \/ ctxDone)
    /\ stores' = stores + 1
    /\ UNCHANGED <<input, service, pc, queries, err, queryRes, indexes,
                   exited, groupErr, resultLock, ctxDone, calls>>

\* result.Responses[query.RefID] = queryRes; the return runs the deferred
\* resultLock.Unlock().  On nil the worker is back at the head of its loop;
\* on an error the worker returns it and errgroup cancels the group context.
StoreAndUnlock(i) ==
    /\ pc = "Wait" /\ status[i] = "locked"
    /\ Responses' = StoreResponse(Responses, queries[i], queryRes[i])
    /\ resultLock' = 0
    /\ status' = [status EXCEPT ![i] = "done"]
    /\ IF jobFuncReturn(queryRes[i]) = "nil"
       THEN idle' = idle + 1 /\ UNCHANGED <<exited, groupErr>>
       ELSE /\ exited' = exited + 1
            /\ groupErr' = IF groupErr = "nil" THEN jobFuncReturn(queryRes[i])
                            ELSE groupErr
            /\ UNCHANGED idle
    /\ lateStores' = (lateStores \/ ctxDone)
    /\ stores' = stores + 1
    /\ UNCHANGED <<input, service, pc, queries, err, queryRes, indexes,
                   ctxDone, calls>>

\* ForEachJob with one job, called directly: the job function starts and
\* calls executeQuery, whatever the state of the context.
DirectCall ==
    /\ pc = "direct" /\ status[1] = "pending"
    /\ status' = [status EXCEPT ![1] = "running"]
    /\ calls' = calls + 1
    /\ UNCHANGED <<input, service, pc, queries, Responses, err, queryRes,
                   indexes, idle, exited, groupErr, resultLock, ctxDone,
                   lateStores, stores>>

\* ForEachJob with one job, called directly: the result is stored, the lock
\* released, and what the job function returns is the error of queryData.
DirectStore ==
    /\ pc = "direct" /\ status[1] = "locked"
    /\ Responses' = StoreResponse(Responses, queries[1], queryRes[1])
    /\ resultLock' = 0
    /\ status' = [status EXCEPT ![1] = "done"]
    /\ lateStores' = (lateStores \/ ctxDone)
    /\ stores' = stores + 1
    /\ pc' = "returned"
    /\ err' = jobFuncReturn(queryRes[1])
    /\ UNCHANGED <<input, service, queries, queryRes, indexes, idle, exited,
                   groupErr, ctxDone, calls>>

\* g.Wait() returns once every worker has returned; queryData returns
\* result and the error of ForEachJob.
WaitReturns ==
    /\ pc = "Wait" /\ idle = 0
    /\ exited = workers(jobs(queries))
    /\ pc' = "returned"
    /\ err' = groupErr
    /\ UNCHANGED <<input, service, queries, Responses, pool, ctxDone, calls,
                   lateStores, stores>>

\* Sequential branch: the loop calls executeQuery for the next query.
LoopCall ==
    /\ pc = "loop"
    /\ indexes < Len(queries)
    /\ \A i \in 1..indexes : status[i] = "done"
    /\ indexes' = indexes + 1
    /\ status' = [status EXCEPT ![indexes + 1] = "running"]
    /\ calls' = calls + 1
    /\ UNCHANGED <<input, service, pc, queries, Responses, err, queryRes, idle,
                   exited, groupErr, resultLock, ctxDone, lateStores, stores>>

\* Sequential branch: executeQuery returns and the result is stored.
LoopStore(i) ==
    /\ pc = "loop" /\ status[i] = "running"
    /\ LET res == executeQuery(queries[i])
       IN  /\ queryRes' = [queryRes EXCEPT ![i] = res]
           /\ Responses' = StoreResponse(Responses, queries[i], res)
    /\ status' = [status EXCEPT ![i] = "done"]
    /\ lateStores' = (lateStores \/ ctxDone)
    /\ stores' = stores + 1
    /\ UNCHANGED <<input, service, pc, queries, err, indexes, idle, exited,
                   groupErr, resultLock, ctxDone, calls>>

\* Mutant of LoopEnds: the sequential loop stops at a cancelled context and
\* queryData returns the context's error.
LoopEndsOnCancel ==
    /\ pc = "loop"
    /\ indexes = Len(queries) \/ ctxDone
    /\ \A i \in 1..indexes : status[i] = "done"
    /\ pc' = "returned"
    /\ err' = IF indexes < Len(queries) THEN "ctx" ELSE err
    /\ UNCHANGED <<input, service, queries, Responses, pool, ctxDone,
                   calls, lateStores, stores>>

\* Sequential branch: the range loop is over, queryData returns result, err.
LoopEnds ==
    /\ pc = "loop"
    /\ indexes = Len(queries)
    /\ \A i \in 1..Len(queries) : status[i] = "done"
    /\ pc' = "returned"
    /\ UNCHANGED <<input, service, queries, Responses, err, pool, ctxDone,
                   calls, lateStores, stores>>

\* The caller cancels the context of the request (or its deadline passes).
Cancel ==
    /\ pc # "returned" /\ ~ctxDone
    /\ ctxDone' = TRUE
    /\ UNCHANGED <<input, service, pc, queries, Responses, err, pool, calls,
                   lateStores, stores>>

Next ==
    \/ ValidateRejects
    \/ ValidateAccepts
    \/ GetDSInfoFails
    \/ GetDSInfoOk
    \/ ParseQuery
    \/ WorkerTake
    \/ WorkerDrained
    \/ WorkerCancelled
    \/ \E i \in 1..Len(queries) : ExecuteReturns(i)
    \/ \E i \in 1..Len(queries) : StoreAndUnlock(i)
    \/ DirectCall
    \/ DirectStore
    \/ WaitReturns
    \/ LoopCall
    \/ \E i \in 1..Len(queries) : LoopStore(i)
    \/ LoopEnds
    \/ Cancel

Spec == Init /\ [][Next]_vars

\* The steps of the program itself: everything but the caller's cancellation.
Progress ==
    \/ ValidateRejects
    \/ ValidateAccepts
    \/ GetDSInfoFails
    \/ GetDSInfoOk
    \/ ParseQuery
    \/ WorkerTake
    \/ WorkerDrained
    \/ WorkerCancelled
    \/ \E i \in 1..Len(queries) : ExecuteReturns(i)
    \/ \E i \in 1..Len(queries) : StoreAndUnlock(i)
    \/ DirectCall
    \/ DirectStore
    \/ WaitReturns
    \/ LoopCall
    \/ \E i \in 1..Len(queries) : LoopStore(i)
    \/ LoopEnds

\* Every backend call eventually returns and the scheduler eventually runs a
\* goroutine that can take a step; the caller may cancel or not.
FairSpec == Spec /\ WF_vars(Progress)

\* ------------------------------------- validateRequest, getFlattenedQueries

\* The values of a header: one value of one or two comma-separated parts, or
\* two values of one part each, or none.
HeaderValues ==
    {<< >>}
        \cup {<<(<<t>>)>> : t \in DsTypes}
        \cup {<<(<<t, u>>)>> : t \in DsTypes, u \in DsTypes}
        \cup {<<(<<t>>), (<<u>>)>> : t \in DsTypes, u \in DsTypes}

\* The request contexts validateRequest may be given.
RequestContexts ==
    {NoRequest}
        \cup [Req : {TRUE}, expression : {"", "true", "false"},
              uid : HeaderValues, plugin : HeaderValues]

\* The requests the query service partitions.
PartitionedRequests == {rq \in ServiceRequests : \A i \in 1..Len(rq) : rq[i].payload = "ok"}

ParsedRequestInit ==
    /\ entry = "parsedRequest"
    /\ request \in PartitionedRequests
    /\ parsedReq \in {[parseMetricRequest(request) EXCEPT !.hasExpression = h] :
                        h \in BOOLEAN}
    /\ reqCtx \in RequestContexts
    /\ req = << >>
    /\ runInParallel = FALSE
    /\ dsInfoErr = FALSE
    /\ pc = "none"
    /\ NoDispatch
    /\ NoParsedRequestOps
    /\ NoExecuteQueryOps
    /\ NoCallResourceOps
    /\ NoMiddlewareOps

\* pr.validateRequest(ctx): the range over pr.parsedQueries visits the
\* buckets in some order.
ValidateRequestCall ==
    /\ entry = "parsedRequest" /\ verdict = "unset"
    /\ \E order \in MapOrders(DOMAIN parsedReq.parsedQueries) :
          verdict' = validateRequest(parsedReq, order, reqCtx)
    /\ UNCHANGED <<request, entry, runInParallel, dsInfoErr, reqCtx, service,
                   dispatch, executeQueryOps, callResourceOps, middlewareOps,
                   flat>>

\* pr.getFlattenedQueries(): the range over pr.parsedQueries visits the
\* buckets in some order, which may differ from call to call.
GetFlattenedQueriesCall ==
    /\ entry = "parsedRequest" /\ verdict # "unset"
    /\ Len(flat) < MaxCalls
    /\ \E order \in MapOrders(DOMAIN parsedReq.parsedQueries) :
          flat' = Append(flat, getFlattenedQueries(parsedReq, order))
    /\ UNCHANGED <<request, entry, runInParallel, dsInfoErr, reqCtx, service,
                   dispatch, executeQueryOps, callResourceOps, middlewareOps,
                   verdict>>

ParsedRequestNext ==
    \/ ValidateRequestCall
    \/ GetFlattenedQueriesCall

ParsedRequestSpec == ParsedRequestInit /\ [][ParsedRequestNext]_vars

\* ---------------------------------------------- inside one executeQuery call

\* The frames api.DataQuery may return: each one adjustFrame can handle
\* ("ok") or not ("bad"), none adjusted yet.
FrameLists ==
    UNION {{[k \in 1..n |-> [id |-> k, shape |-> sh[k], adjusted |-> 0]] :
               sh \in [1..n -> {"ok", "bad"}]} : n \in 0..MaxFrames}

\* What api.DataQuery may return: an error, or frames.
BackendAnswers ==
    {[err |-> "backend", frames |-> << >>]}
        \cup {[err |-> "nil", frames |-> fs] : fs \in FrameLists}

ExecuteQueryInit ==
    /\ entry = "executeQuery"
    /\ request = <<[RefID |-> 1, dsType |-> "loki", payload |-> "ok"]>>
    /\ answer \in BackendAnswers
    /\ responseOpts \in [metricDataplane : BOOLEAN, logsDataplane : BOOLEAN]
    /\ execPc = "DataQuery"
    /\ frames = << >>
    /\ adjustLog = << >>
    /\ runResult = [frames |-> << >>, err |-> "nil"]
    /\ response = DataResponse
    /\ parsedReq = parseMetricRequest(<< >>)
    /\ req = << >>
    /\ runInParallel = FALSE
    /\ dsInfoErr = FALSE
    /\ pc = "none"
    /\ reqCtx = NoRequest
    /\ NoDispatch
    /\ NoParsedRequestOps
    /\ NoCallResourceOps
    /\ NoMiddlewareOps

\* runQuery: api.DataQuery returns; on an error runQuery returns no frames
\* and the error.
DataQueryReturns ==
    /\ execPc = "DataQuery"
    /\ IF answer.err # "nil"
       THEN /\ runResult' = [frames |-> << >>, err |-> answer.err]
            /\ execPc' = "executeQuery"
            /\ UNCHANGED frames
       ELSE /\ frames' = answer.frames
            /\ execPc' = "range"
            /\ UNCHANGED runResult
    /\ UNCHANGED <<request, entry, runInParallel, dsInfoErr, reqCtx, service,
                   dispatch, parsedRequestOps, callResourceOps, middlewareOps,
                   answer, responseOpts, adjustLog,
                   response>>

\* Mutant of AdjustFrameCall: the error of adjustFrame is dropped and the
\* loop goes on.
AdjustFrameIgnoringError ==
    /\ execPc = "range" /\ Len(adjustLog) < Len(frames)
    /\ LET k == Len(adjustLog) + 1
           a == adjustFrame(frames[k], request[1], ~responseOpts.metricDataplane,
                            responseOpts.logsDataplane)
       IN  /\ adjustLog' = Append(adjustLog,
                                  [frame |-> frames[k].id,
                                   setMetricFrameName |-> ~responseOpts.metricDataplane,
                                   logsDataplane |-> responseOpts.logsDataplane])
           /\ frames' = [frames EXCEPT ![k] = a.frame]
           /\ UNCHANGED <<runResult, execPc>>
    /\ UNCHANGED <<request, entry, runInParallel, dsInfoErr, reqCtx, service,
                   dispatch, parsedRequestOps, callResourceOps, middlewareOps,
                   answer, responseOpts, response>>

\* runQuery: the next frame of the range loop is handed to adjustFrame; on
\* an error runQuery returns no frames and the error.
AdjustFrameCall ==
    /\ execPc = "range" /\ Len(adjustLog) < Len(frames)
    /\ LET k == Len(adjustLog) + 1
           a == adjustFrame(frames[k], request[1], ~responseOpts.metricDataplane,
                            responseOpts.logsDataplane)
       IN  /\ adjustLog' = Append(adjustLog,
                                  [frame |-> frames[k].id,
                                   setMetricFrameName |-> ~responseOpts.metricDataplane,
                                   logsDataplane |-> responseOpts.logsDataplane])
           /\ frames' = [frames EXCEPT ![k] = a.frame]
           /\ IF a.err # "nil"
              THEN /\ runResult' = [frames |-> << >>, err |-> a.err]
                   /\ execPc' = "executeQuery"
              ELSE UNCHANGED <<runResult, execPc>>
    /\ UNCHANGED <<request, entry, runInParallel, dsInfoErr, reqCtx, service,
                   dispatch, parsedRequestOps, callResourceOps, middlewareOps,
                   answer, responseOpts, response>>

\* runQuery: the range loop is over, the frames are returned with a nil error.
RunQueryReturns ==
    /\ execPc = "range" /\ Len(adjustLog) = Len(frames)
    /\ runResult' = [frames |-> frames, err |-> "nil"]
    /\ execPc' = "executeQuery"
    /\ UNCHANGED <<request, entry, runInParallel, dsInfoErr, reqCtx, service,
                   dispatch, parsedRequestOps, callResourceOps, middlewareOps,
                   answer, responseOpts, frames,
                   adjustLog, response>>

\* executeQuery: the error of runQuery, or else its frames, go into the
\* DataResponse, which is returned.
ExecuteQueryReturns ==
    /\ execPc = "executeQuery"
    /\ response' = executeQueryOf(runResult)
    /\ execPc' = "returned"
    /\ UNCHANGED <<request, entry, runInParallel, dsInfoErr, reqCtx, service,
                   dispatch, parsedRequestOps, callResourceOps, middlewareOps,
                   answer, responseOpts, frames,
                   adjustLog, runResult>>

ExecuteQueryNext ==
    \/ DataQueryReturns
    \/ AdjustFrameCall
    \/ RunQueryReturns
    \/ ExecuteQueryReturns

ExecuteQuerySpec == ExecuteQueryInit /\ [][ExecuteQueryNext]_vars

\* ----------------------------------------------------- inside callResource

\* Everything callResource does not touch.
outsideCallResource ==
    <<request, entry, runInParallel, dsInfoErr, reqCtx, service, dispatch,
      parsedRequestOps, executeQueryOps, middlewareOps>>

CallResourceInit ==
    /\ entry = "callResource"
    /\ method \in Methods
    /\ url \in Urls
    /\ rawLokiResponse \in RawLokiResponses
    /\ sendErr \in {"nil", "send"}
    /\ resPc = "method"
    /\ rawCalls = << >>
    /\ sent = << >>
    /\ resErr = "nil"
    /\ request = << >>
    /\ parsedReq = parseMetricRequest(<< >>)
    /\ req = << >>
    /\ runInParallel = FALSE
    /\ dsInfoErr = FALSE
    /\ pc = "none"
    /\ reqCtx = NoRequest
    /\ NoDispatch
    /\ NoParsedRequestOps
    /\ NoExecuteQueryOps
    /\ NoMiddlewareOps

\* req.Method != "GET": the error "invalid HTTP method" is returned.
MethodRejected ==
    /\ resPc = "method" /\ method # "GET"
    /\ resErr' = "invalid HTTP method"
    /\ resPc' = "returned"
    /\ UNCHANGED <<outsideCallResource, method, url, rawLokiResponse, sendErr,
                   rawCalls, sent>>

MethodAccepted ==
    /\ resPc = "method" /\ method = "GET"
    /\ resPc' = "url"
    /\ UNCHANGED <<outsideCallResource, method, url, rawLokiResponse, sendErr,
                   rawCalls, sent, resErr>>

\* The URL starts with none of the four prefixes: the error "invalid URL" is
\* returned.
URLRejected ==
    /\ resPc = "url" /\ invalidURL(url)
    /\ resErr' = "invalid URL"
    /\ resPc' = "returned"
    /\ UNCHANGED <<outsideCallResource, method, url, rawLokiResponse, sendErr,
                   rawCalls, sent>>

URLAccepted ==
    /\ resPc = "url" /\ ~invalidURL(url)
    /\ resPc' = "RawQuery"
    /\ UNCHANGED <<outsideCallResource, method, url, rawLokiResponse, sendErr,
                   rawCalls, sent, resErr>>

\* api.RawQuery(ctx, lokiURL): on an error callResource returns it.
RawQueryReturns ==
    /\ resPc = "RawQuery"
    /\ rawCalls' = Append(rawCalls, lokiURL(url))
    /\ IF rawLokiResponse.err # "nil"
       THEN resErr' = rawLokiResponse.err /\ resPc' = "returned"
       ELSE resPc' = "Send" /\ UNCHANGED resErr
    /\ UNCHANGED <<outsideCallResource, method, url, rawLokiResponse, sendErr,
                   sent>>

\* sender.Send(&backend.CallResourceResponse{...}); what it returns is what
\* callResource returns.
SendReturns ==
    /\ resPc = "Send"
    /\ sent' = Append(sent, [Status |-> rawLokiResponse.Status,
                             Headers |-> respHeaders(rawLokiResponse),
                             Body |-> rawLokiResponse.Body])
    /\ resErr' = sendErr
    /\ resPc' = "returned"
    /\ UNCHANGED <<outsideCallResource, method, url, rawLokiResponse, sendErr,
                   rawCalls>>

CallResourceNext ==
    \/ MethodRejected
    \/ MethodAccepted
    \/ URLRejected
    \/ URLAccepted
    \/ RawQueryReturns
    \/ SendReturns

CallResourceSpec == CallResourceInit /\ [][CallResourceNext]_vars

\* -------------------------------------------- ResponseLimitMiddleware in use

\* Everything the middleware does not touch.
outsideMiddleware ==
    <<request, entry, runInParallel, dsInfoErr, reqCtx, service, dispatch,
      parsedRequestOps, executeQueryOps, callResourceOps>>

MiddlewareInit ==
    /\ entry = "ResponseLimitMiddleware"
    /\ limit \in -1..MaxLimit
    /\ tripper = "none"
    /\ nextAnswers = << >>
    /\ tripResults = << >>
    /\ request = << >>
    /\ parsedReq = parseMetricRequest(<< >>)
    /\ req = << >>
    /\ runInParallel = FALSE
    /\ dsInfoErr = FALSE
    /\ pc = "none"
    /\ reqCtx = NoRequest
    /\ NoDispatch
    /\ NoParsedRequestOps
    /\ NoExecuteQueryOps
    /\ NoCallResourceOps

\* The middleware function is applied to next: it returns next itself or the
\* RoundTripperFunc around it.
MiddlewareReturns ==
    /\ entry = "ResponseLimitMiddleware" /\ tripper = "none"
    /\ tripper' = middleware(limit)
    /\ UNCHANGED <<outsideMiddleware, limit, nextAnswers, tripResults>>

\* A request sent through next itself: what next.RoundTrip returns is what
\* the caller gets.
NextRoundTrip ==
    /\ tripper = "next"
    /\ Len(tripResults) < MaxRequests
    /\ \E a \in RoundTripAnswers :
          /\ nextAnswers' = Append(nextAnswers, a)
          /\ tripResults' = Append(tripResults, a)
    /\ UNCHANGED <<outsideMiddleware, limit, tripper>>

\* A request sent through the RoundTripperFunc: it calls next.RoundTrip and
\* returns what limitedRoundTrip makes of the answer.
LimitedRoundTrip ==
    /\ tripper = "RoundTripperFunc"
    /\ Len(tripResults) < MaxRequests
    /\ \E a \in RoundTripAnswers :
          /\ nextAnswers' = Append(nextAnswers, a)
          /\ tripResults' = Append(tripResults, limitedRoundTrip(a.res, a.err, limit))
    /\ UNCHANGED <<outsideMiddleware, limit, tripper>>

MiddlewareNext ==
    \/ MiddlewareReturns
    \/ NextRoundTrip
    \/ LimitedRoundTrip

MiddlewareSpec == MiddlewareInit /\ [][MiddlewareNext]_vars

\* ------------------------------------------------------------- vocabulary

Returned == pc = "returned"

\* queryData ran to its end on a parsed query list (it was called, and
\* parseQuery returned no error).
Dispatched == Returned /\ err \notin {"ErrDuplicateRefId", "dsInfo", "decode"}

DistinctRefIDs(qs) ==
    \A i, j \in 1..Len(qs) : qs[i].RefID = qs[j].RefID => i = j

HasDuplicateRefId(qs) == ~DistinctRefIDs(qs)

WellFormed(qs) == \A i \in 1..Len(qs) : parseQueryModel(qs[i]) = "nil"

InFlight == {i \in 1..Len(queries) : status[i] \in {"running", "locked"}}

Started == {i \in 1..Len(queries) : status[i] # "pending"}

Stored == {i \in 1..Len(queries) : status[i] = "done"}

\* ------------------------------------------------------------------ claims

\* C1: for a request of N well-formed sub-queries with pairwise distinct
\* RefIDs and no cancellation, queryData returns a map with exactly N entries
\* whose keys are exactly the input RefIDs, in both modes, for every N.
C1_CompleteMap ==
    (Dispatched /\ WellFormed(req) /\ DistinctRefIDs(req) /\ ~ctxDone)
        => /\ DOMAIN Responses = RefIDsOf(req)
           /\ Cardinality(DOMAIN Responses) = Len(req)

C1_Witness_MoreThanLimit ==
    /\ Dispatched /\ runInParallel /\ ~ctxDone
    /\ Len(req) > WorkerLimit
    /\ Cardinality(DOMAIN Responses) = Len(req)

\* C2: a failed backend call is stored as the Error of the entry of that
\* query's RefID only; every query is still executed and stored with its own
\* outcome, no worker returns an error (the batch is not cancelled), and the
\* error queryData returns is nil, in both modes.
C2_FailureIsolated ==
    /\ (~ctxDone => groupErr = "nil")
    /\ (Dispatched /\ ~ctxDone) =>
          /\ err = "nil"
          /\ Stored = 1..Len(queries)
          /\ calls = Len(queries)
          /\ \A i \in 1..Len(queries) : queries[i].RefID \in DOMAIN Responses
          /\ \A r \in DOMAIN Responses :
                \E i \in 1..Len(queries) :
                    /\ queries[i].RefID = r
                    /\ Responses[r] = executeQuery(queries[i])
                    /\ (Responses[r].Error # "nil") = (runQuery(queries[i]).err # "nil")

C2_Witness_OneFailsAmongMany ==
    /\ Dispatched /\ ~ctxDone /\ runInParallel
    /\ Len(queries) > WorkerLimit
    /\ Responses[2].Error = "backend"
    /\ \A r \in DOMAIN Responses : r # 2 => Responses[r].Error = "nil"

\* C3 (as stated): with no cancellation the returned map is, in every
\* interleaving of the workers and in both modes, the map the sequential loop
\* builds for the same query list.
C3_SameAsSequential ==
    (Dispatched /\ ~ctxDone)
        => Responses = SequentialResponses(queries, Len(queries))

\* C3 (amended): the same, for query lists with pairwise distinct RefIDs.
C3_SameAsSequentialDistinct ==
    (Dispatched /\ ~ctxDone /\ DistinctRefIDs(queries))
        => Responses = SequentialResponses(queries, Len(queries))

C3_Witness_ParallelEqualsSequential ==
    /\ Dispatched /\ ~ctxDone /\ runInParallel
    /\ Len(queries) > WorkerLimit
    /\ Responses = SequentialResponses(queries, Len(queries))
    /\ Responses[1].Error = "nil" /\ Responses[2].Error # "nil"

\* C4: a request of the query service in which two sub-queries share a RefID
\* fails with ErrDuplicateRefId before anything is dispatched: no backend
\* call is ever made for it and no response entry is written.
C4_DuplicateRejectedBeforeDispatch ==
    (entry = "query.QueryData" /\ HasDuplicateRefId(request))
        => /\ calls = 0
           /\ Responses = NewQueryDataResponse
           /\ pc \in {"validateRequest", "returned"}
           /\ (Returned => err = "ErrDuplicateRefId")

C4_Witness_Rejected ==
    /\ entry = "query.QueryData" /\ HasDuplicateRefId(request)
    /\ Returned /\ err = "ErrDuplicateRefId" /\ calls = 0

\* C5: validateRequest returns ErrDuplicateRefId exactly when two queries of
\* the parsedRequest share a RefID, in one bucket or across buckets, whatever
\* the order in which the buckets are visited.
C5_DuplicateIffRejected ==
    entry = "query.QueryData" =>
        /\ \A order \in MapOrders(DOMAIN parsedReq.parsedQueries) :
              (validateRequest(parsedReq, order, reqCtx) = "ErrDuplicateRefId")
                  = HasDuplicateRefId(request)
        /\ pc # "validateRequest" =>
              ((err = "ErrDuplicateRefId") = HasDuplicateRefId(request))

C5_Witness_AcrossBuckets ==
    /\ entry = "query.QueryData" /\ Returned /\ err = "ErrDuplicateRefId"
    /\ Cardinality(DOMAIN parsedReq.parsedQueries) = 2
    /\ \A t \in DOMAIN parsedReq.parsedQueries :
          DistinctRefIDs(parsedReq.parsedQueries[t])

\* C6 (as stated): when the context is cancelled during a parallel dispatch
\* the returned map still has one entry per input query, and a query that
\* never ran has an entry marked as a Cancelled failure.  Stated for lists of
\* two or more queries, which the worker pool serves in every release.
C6_CancelledEntriesPresent ==
    (Dispatched /\ runInParallel /\ ctxDone /\ Len(queries) >= 2)
        => /\ DOMAIN Responses = RefIDsOf(queries)
           /\ \A i \in 1..Len(queries) :
                 status[i] = "pending" => Responses[queries[i].RefID].Error = "cancelled"

\* C7 (as stated): a non-nil error returned by queryData or Service.QueryData
\* was raised before any dispatch work: no executeQuery call was started and
\* the returned map is empty.  Stated for requests of two or more queries,
\* which the worker pool serves in every release.
C7_ErrorOnlyBeforeDispatch ==
    (Returned /\ err # "nil" /\ Len(req) >= 2)
        => /\ calls = 0
           /\ Responses = NewQueryDataResponse

C9_ComputedResultsStored ==
    (Returned /\ runInParallel)
        => \A i \in 1..Len(queries) :
              status[i] # "pending" =>
                  /\ status[i] = "done"
                  /\ queries[i].RefID \in DOMAIN Responses
                  /\ \E j \in 1..Len(queries) :
                        /\ queries[j].RefID = queries[i].RefID
                        /\ Responses[queries[i].RefID] = queryRes[j]

C9_Witness_StoredAfterCancel ==
    /\ Returned /\ runInParallel /\ ctxDone /\ lateStores
    /\ err = "ctx"
    /\ Stored # {} /\ Stored # 1..Len(queries)
    /\ \A i \in Stored : queries[i].RefID \in DOMAIN Responses

\* C10: during a parallel dispatch at most 10, and at most len(queries),
\* executeQuery calls are in progress, and a query beyond that bound starts
\* only after a worker has finished an earlier one.
C10_BoundedConcurrency ==
    pc = "Wait" =>
        /\ Cardinality(InFlight) <= WorkerLimit
        /\ Cardinality(InFlight) <= Len(queries)
        /\ Cardinality(InFlight) + idle + exited <= WorkerLimit
        /\ Cardinality(Started) <= WorkerLimit + Cardinality(Stored)

C10_Witness_QueueWaits ==
    /\ pc = "Wait" /\ idle = 0
    /\ Cardinality({i \in 1..Len(queries) : status[i] = "running"}) = WorkerLimit
    /\ \E i \in 1..Len(queries) : status[i] = "pending"

\* Jobs between resultLock.Lock() and the deferred Unlock().
Writers == {i \in 1..Len(queries) : status[i] = "locked"}

\* C11: in parallel mode every write into result.Responses is made by the
\* holder of resultLock, so at most one worker is between Lock() and Unlock()
\* at any time and every insertion made is in the map; queryData returns only
\* once every worker has finished, so no write follows the return.
C11_WritesUnderLock ==
    /\ [](runInParallel =>
            /\ Cardinality(Writers) <= 1
            /\ Writers = IF resultLock = 0 THEN {} ELSE {resultLock}
            /\ stores = Cardinality(Stored)
            /\ \A i \in Stored : queries[i].RefID \in DOMAIN Responses
            /\ Returned => /\ InFlight = {} /\ resultLock = 0 /\ idle = 0
                           /\ (Dispatched /\ jobs(queries) > 1
                                 => exited = workers(jobs(queries))))
    /\ [][(runInParallel /\ (Responses' # Responses \/ stores' # stores))
            => /\ ~Returned
               /\ resultLock # 0 /\ Writers = {resultLock}
               /\ Responses' = StoreResponse(Responses, queries[resultLock],
                                             queryRes[resultLock])
               /\ stores' = stores + 1
               /\ resultLock' = 0]_vars

C11_Witness_OneWriterAmongMany ==
    /\ pc = "Wait" /\ resultLock # 0
    /\ Cardinality(InFlight) = WorkerLimit
    /\ stores >= 1 /\ stores = Cardinality(DOMAIN Responses)

\* Jobs whose backend call (executeQuery) is in progress.
Calling == {i \in 1..Len(queries) : status[i] = "running"}

\* C12: no worker holds resultLock while its backend call is in progress: the
\* lock is taken only by a job whose executeQuery has returned and is released
\* by the step that makes the job's single insertion; whatever calls are
\* still in progress, the holder can insert, and with the lock free any job
\* whose call returns can take it.
C12_NoLockDuringBackendCall ==
    /\ [](runInParallel =>
            /\ \A i \in Calling : resultLock # i
            /\ resultLock # 0 =>
                  /\ status[resultLock] = "locked"
                  /\ queryRes[resultLock] = executeQuery(queries[resultLock])
            /\ (pc = "Wait" /\ resultLock # 0) => ENABLED StoreAndUnlock(resultLock)
            /\ (pc = "direct" /\ resultLock # 0) => ENABLED DirectStore
            /\ resultLock = 0 => \A i \in Calling : ENABLED ExecuteReturns(i))
    /\ [][(resultLock = 0 /\ resultLock' # 0)
            => /\ resultLock' \in Calling
               /\ status' = [status EXCEPT ![resultLock'] = "locked"]
               /\ UNCHANGED <<Responses, stores>>]_vars
    /\ [][resultLock # 0
            => \/ /\ UNCHANGED <<resultLock, Responses, stores>>
                  /\ status'[resultLock] = "locked"
               \/ /\ resultLock' = 0
                  /\ stores' = stores + 1
                  /\ status' = [status EXCEPT ![resultLock] = "done"]]_vars

C12_Witness_SlowCallOvertaken ==
    /\ pc = "Wait" /\ resultLock = 0
    /\ Len(queries) > WorkerLimit
    /\ Calling = {1}
    /\ Stored = 2..Len(queries)

\* The steps a job may make: none, or one step forward in
\* pending, running, (locked,) done.
JobAdvances(i) ==
    \/ status'[i] = status[i]
    \/ status[i] = "pending" /\ status'[i] = "running"
    \/ status[i] = "running" /\ status'[i] \in {"locked", "done"}
    \/ status[i] = "locked" /\ status'[i] = "done"

\* C13: executeQuery is called at most once per query and at most one
\* insertion is made per query, in both modes and every interleaving: the
\* indexes taken are 1, 2, ... without repetition, every call starts a job
\* that was pending, every insertion ends a job that was in progress.  With
\* no cancellation a returned dispatch has executed and inserted every query
\* exactly once.
C13_AtMostOncePerQuery ==
    /\ [](/\ calls = Cardinality(Started)
          /\ stores = Cardinality(Stored)
          /\ pc \in {"Wait", "loop"} => Started = 1..Min(indexes, Len(queries))
          /\ (Dispatched /\ ~ctxDone) =>
                /\ calls = Len(queries) /\ stores = Len(queries)
                /\ Stored = 1..Len(queries))
    /\ [][queries' = queries =>
            /\ \A i \in 1..Len(queries) : JobAdvances(i)
            /\ calls' - calls =
                  Cardinality({i \in 1..Len(queries) :
                                  status[i] = "pending" /\ status'[i] = "running"})
            /\ stores' - stores =
                  Cardinality({i \in 1..Len(queries) :
                                  status[i] # "done" /\ status'[i] = "done"})
            /\ calls' - calls + stores' - stores <= 1]_vars

C13_Witness_EachExactlyOnce ==
    /\ Dispatched /\ ~ctxDone
    /\ Len(queries) > WorkerLimit
    /\ indexes > Len(queries)
    /\ calls = Len(queries) /\ stores = Len(queries)

\* Queries no worker took before queryData returned.
Skipped == {i \in 1..Len(queries) : status[i] = "pending"}

\* C18: in parallel mode a nil error of queryData means a complete map: an
\* entry for the RefID of every input query, every query executed and
\* stored; equivalently, a query skipped because of a cancellation makes the
\* returned error non-nil.
C18_NilErrorMeansComplete ==
    (Returned /\ runInParallel) =>
        /\ err = "nil" =>
              /\ RefIDsOf(req) \subseteq DOMAIN Responses
              /\ queries = req
              /\ Stored = 1..Len(queries)
        /\ Skipped # {} => err # "nil" /\ ctxDone

C18_Witness_LateCancelStillComplete ==
    /\ Returned /\ runInParallel /\ ctxDone
    /\ err = "nil"
    /\ Len(req) > WorkerLimit
    /\ RefIDsOf(req) \subseteq DOMAIN Responses

\* C20: in sequential mode queryData calls executeQuery for every query, in
\* list order, one call after the other, and returns a nil error, also when
\* the context is cancelled before or during the dispatch: a cancellation
\* never reduces the number of queries executed.
C20_SequentialIgnoresCancel ==
    /\ [](~runInParallel =>
            /\ pc = "loop" =>
                  /\ Started = 1..indexes
                  /\ Calling \subseteq {indexes}
                  /\ 1..(indexes - 1) \subseteq Stored
            /\ Dispatched =>
                  /\ err = "nil"
                  /\ calls = Len(queries)
                  /\ Stored = 1..Len(queries)
                  /\ RefIDsOf(queries) \subseteq DOMAIN Responses)
    /\ [][(~runInParallel /\ calls' # calls)
            => /\ calls' = calls + 1
               /\ Stored = 1..calls
               /\ status' = [status EXCEPT ![calls + 1] = "running"]]_vars

C20_Witness_CancelledBeforeDispatch ==
    /\ ~runInParallel /\ Dispatched /\ ctxDone
    /\ Len(queries) > WorkerLimit
    /\ calls = Len(queries)
    /\ lateStores /\ stores = Len(queries)
    /\ err = "nil"

\* C19: if every backend call eventually returns, queryData eventually
\* returns, in both modes, for 0, 1, 2..10 and more than 10 queries, with or
\* without a cancellation: no worker waits forever for resultLock or for a
\* next query, and the coordinator waits for no worker that never exits.
C19_EventuallyReturns == <>Returned

C19_Witness_PoolReturned ==
    /\ Returned /\ runInParallel
    /\ Len(queries) > WorkerLimit
    /\ idle = 0 /\ exited = workers(jobs(queries))
    /\ InFlight = {} /\ resultLock = 0

\* C15: validateRequest checks duplicate identifiers only: whatever the
\* request context, the X-Datasource-Uid and X-Plugin-Id headers, the
\* expression parameter and hasExpression are, it returns nil for a
\* parsedRequest without a repeated RefID, ErrDuplicateRefId for one with a
\* repeated RefID, and never ErrQueryParamMismatch.
C15_DuplicateCheckOnly ==
    verdict # "unset" =>
        /\ verdict # "ErrQueryParamMismatch"
        /\ DistinctRefIDs(request) => verdict = "nil"
        /\ HasDuplicateRefId(request) => verdict = "ErrDuplicateRefId"

C15_Witness_MismatchingHeadersAccepted ==
    /\ verdict = "nil"
    /\ Len(request) >= 2 /\ DistinctRefIDs(request)
    /\ reqCtx.Req /\ ~parsedReq.hasExpression
    /\ Len(splitHeaders(reqCtx.uid)) > Cardinality(DOMAIN parsedReq.parsedQueries)
    /\ headerValidation(parsedReq, reqCtx) = "ErrQueryParamMismatch"

RECURSIVE SumOfLengths(_, _)
SumOfLengths(pq, types) ==
    IF types = {} THEN 0
    ELSE LET t == CHOOSE u \in types : TRUE
         IN  Len(pq[t]) + SumOfLengths(pq, types \ {t})

Occurrences(qs, q) == Cardinality({i \in 1..Len(qs) : qs[i] = q})

RECURSIVE OccurrencesInBuckets(_, _, _)
OccurrencesInBuckets(pq, types, q) ==
    IF types = {} THEN 0
    ELSE LET t == CHOOSE u \in types : TRUE
         IN  Occurrences(pq[t], q) + OccurrencesInBuckets(pq, types \ {t}, q)

\* f holds the buckets of pq one after the other: every bucket is a
\* contiguous stretch of f, in its own order, no two stretches overlap, and
\* the stretches make up all of f.
HoldsBucketsContiguously(f, pq) ==
    /\ Len(f) = SumOfLengths(pq, DOMAIN pq)
    /\ \A q \in {f[i] : i \in 1..Len(f)} \cup UNION {{pq[t][i] : i \in 1..Len(pq[t])} : t \in DOMAIN pq} :
          Occurrences(f, q) = OccurrencesInBuckets(pq, DOMAIN pq, q)
    /\ \E off \in [DOMAIN pq -> 0..Len(f)] :
          /\ \A t \in DOMAIN pq :
                /\ off[t] + Len(pq[t]) <= Len(f)
                /\ SubSeq(f, off[t] + 1, off[t] + Len(pq[t])) = pq[t]
          /\ \A t, u \in DOMAIN pq :
                t # u => \/ off[t] + Len(pq[t]) <= off[u]
                         \/ off[u] + Len(pq[u]) <= off[t]

FirstBadFrame(fs) ==
    IF \E k \in 1..Len(fs) : fs[k].shape = "bad"
    THEN CHOOSE k \in 1..Len(fs) :
            /\ fs[k].shape = "bad"
            /\ \A j \in 1..(k - 1) : fs[j].shape # "bad"
    ELSE 0

\* C16: executeQuery always returns a DataResponse: its Error is set exactly
\* when api.DataQuery failed or adjustFrame failed on some frame, and then
\* Frames is empty; otherwise Error is nil and Frames are the backend's
\* frames, each adjusted exactly once, in order.  adjustFrame is called for
\* the frames in order, once each, with !metricDataplane and logsDataplane,
\* not at all when api.DataQuery failed and for no frame after the first one
\* it fails on.
C16_ErrorOrAdjustedFrames ==
    /\ \A k \in 1..Len(adjustLog) :
          /\ adjustLog[k].frame = k
          /\ adjustLog[k].setMetricFrameName = ~responseOpts.metricDataplane
          /\ adjustLog[k].logsDataplane = responseOpts.logsDataplane
    /\ execPc = "returned" =>
          LET bad == FirstBadFrame(answer.frames)
          IN  /\ response.Error # "nil" <=> (answer.err # "nil" \/ bad # 0)
              /\ response.Error # "nil" => response.Frames = << >>
              /\ response.Error = "nil" =>
                    /\ Len(response.Frames) = Len(answer.frames)
                    /\ \A k \in 1..Len(answer.frames) :
                          response.Frames[k] = [answer.frames[k] EXCEPT !.adjusted = 1]
              /\ Len(adjustLog) = IF answer.err # "nil" THEN 0
                                  ELSE IF bad # 0 THEN bad
                                  ELSE Len(answer.frames)

C16_Witness_FailsOnSecondOfThree ==
    /\ execPc = "returned"
    /\ answer.err = "nil" /\ Len(answer.frames) >= 3
    /\ FirstBadFrame(answer.frames) = 2
    /\ Len(adjustLog) = 2
    /\ response.Error = "adjust" /\ response.Frames = << >>

\* The URLs the resource passthrough permits.
AllowedURL(u) ==
    \E prefix \in {PrefixLabels, PrefixLabel, PrefixSeries, PrefixIndexStats} :
        HasPrefix(u, prefix)

\* C14: callResource rejects a request whose method is not GET, and a GET
\* request whose URL starts with none of labels?, label/, series?,
\* index/stats?: it returns an error, api.RawQuery is not called and nothing
\* is sent; the method is checked before the URL.
C14_RejectedBeforeBackendCall ==
    /\ (method # "GET" \/ ~AllowedURL(url)) =>
          /\ resPc \in {"method", "url", "returned"}
          /\ rawCalls = << >> /\ sent = << >>
          /\ resPc = "returned" => resErr # "nil"
    /\ (resPc = "returned" /\ method # "GET") => resErr = "invalid HTTP method"
    /\ (resPc = "returned" /\ method = "GET" /\ ~AllowedURL(url))
          => resErr = "invalid URL"

C14_Witness_NearMissURLRejected ==
    /\ resPc = "returned"
    /\ method = "GET"
    /\ HasPrefix(url, SubSeq(PrefixLabels, 1, Len(PrefixLabels) - 1))
    /\ ~AllowedURL(url)
    /\ resErr = "invalid URL"
    /\ rawCalls = << >> /\ sent = << >>

\* The path every resource call goes to: "/loki/api/v1/".
LokiApiV1 == <<"/", "l", "o", "k", "i", "/", "a", "p", "i", "/", "v", "1", "/">>

\* callResource has returned for a GET request with an allowed prefix.
AcceptedReturned == resPc = "returned" /\ method = "GET" /\ AllowedURL(url)

\* C21: for a GET request with an allowed prefix callResource makes exactly
\* one backend call, to /loki/api/v1/<url>; if it succeeds exactly one
\* response is sent, with the backend's status and body, the content-type
\* application/json, and a content-encoding header exactly when the backend
\* reported a non-empty encoding, with that value; if it fails nothing is
\* sent and the backend's error is returned.
C21_OneCallOneResponse ==
    /\ Len(rawCalls) <= 1 /\ Len(sent) <= 1
    /\ sent # << >> => rawCalls # << >>
    /\ AcceptedReturned =>
          /\ Len(rawCalls) = 1
          /\ Len(rawCalls[1]) = Len(LokiApiV1) + Len(url)
          /\ SubSeq(rawCalls[1], 1, Len(LokiApiV1)) = LokiApiV1
          /\ SubSeq(rawCalls[1], Len(LokiApiV1) + 1, Len(rawCalls[1])) = url
          /\ rawLokiResponse.err # "nil" =>
                /\ sent = << >>
                /\ resErr = rawLokiResponse.err
          /\ rawLokiResponse.err = "nil" =>
                /\ Len(sent) = 1
                /\ sent[1].Status = rawLokiResponse.Status
                /\ sent[1].Body = rawLokiResponse.Body
                /\ sent[1].Headers.contentType = <<"application/json">>
                /\ "contentEncoding" \in DOMAIN sent[1].Headers
                      <=> rawLokiResponse.Encoding # ""
                /\ rawLokiResponse.Encoding # "" =>
                      sent[1].Headers.contentEncoding = <<rawLokiResponse.Encoding>>
                /\ DOMAIN sent[1].Headers \subseteq {"contentType", "contentEncoding"}

C21_Witness_PlainResponseForwarded ==
    /\ AcceptedReturned
    /\ HasPrefix(url, PrefixIndexStats)
    /\ rawLokiResponse.err = "nil" /\ rawLokiResponse.Encoding = ""
    /\ rawLokiResponse.Status = 500
    /\ Len(rawCalls) = 1 /\ Len(sent) = 1
    /\ DOMAIN sent[1].Headers = {"contentType"}

\* C22: with limit <= 0 ResponseLimitMiddleware returns next itself and the
\* caller gets what next.RoundTrip returned; with limit > 0 every request
\* makes exactly one call of next.RoundTrip, a failed call gives (nil, err),
\* and otherwise the same response is returned with its body behind a reader
\* limited to limit bytes, except that a nil response and a response with
\* status 101 Switching Protocols keep their body.
C22_LimitsBodiesOnly ==
    /\ tripper # "none" => (tripper = "next" <=> limit <= 0)
    /\ Len(nextAnswers) = Len(tripResults)
    /\ limit <= 0 => tripResults = nextAnswers
    /\ limit > 0 =>
          \A k \in 1..Len(tripResults) :
              LET a == nextAnswers[k]
                  r == tripResults[k]
              IN  /\ a.err # "nil" => r.res = NilResponse /\ r.err = a.err
                  /\ a.err = "nil" =>
                        /\ r.err = "nil"
                        /\ r.res.isNil = a.res.isNil
                        /\ r.res.StatusCode = a.res.StatusCode
                        /\ r.res.Body.data = a.res.Body.data
                        /\ IF a.res.isNil \/ a.res.StatusCode = 101
                           THEN r.res.Body = a.res.Body
                           ELSE /\ r.res.Body.limited
                                /\ r.res.Body.maxBytes = limit

C22_Witness_UpgradeKeptOthersLimited ==
    /\ limit > 1
    /\ Len(tripResults) = 2
    /\ nextAnswers[1].err = "nil" /\ nextAnswers[1].res.StatusCode = 101
    /\ ~tripResults[1].res.Body.limited
    /\ nextAnswers[2].err = "nil" /\ nextAnswers[2].res.StatusCode = 200
    /\ tripResults[2].res.Body.limited /\ tripResults[2].res.Body.maxBytes = limit

====
